---- MODULE Spec2Model ----
(***************************************************************************)
(* Model of cart_prod: Hom2FCartProd and Hom3FCartProd, the two-fold and   *)
(* three-fold lazy Cartesian products of homogeneous iterators             *)
(* (src/src/specs/hom2fcartprod.rs, src/src/specs/hom3fcartprod.rs).       *)
(*                                                                         *)
(* A value of Option<T> is a sequence: <<>> is None and <<x>> is Some(x).  *)
(* An operation on "&mut self" is an operator that returns a record        *)
(* [self |-> the receiver afterwards, ret |-> the returned value].         *)
(***************************************************************************)
EXTENDS Integers, Sequences, FiniteSets

\* Longest source sequence handed to new().
MaxLen == 2
\* Calls of next() explored after every cursor position has been visited.
ExtraCalls == 2
\* Width of usize in the model, in bits.
UsizeBits == 4

\* The item type: two values, so that a source can repeat an item.
Items == {0, 1}

USIZE_MAX == 2^UsizeBits - 1

None == <<>>
Some(x) == <<x>>
Unwrap(o) == o[1]

VARIABLES
  arity,  \* 2: the program built a Hom2FCartProd; 3: a Hom3FCartProd;
          \* 23: one of each, called in turn (SpecPair)
  src,    \* the source sequences handed to new(), by position
  h,      \* the product iterator (the struct's fields)
  out,    \* the results of the calls of next() so far, oldest first
  hint,   \* the result of size_hint() if it was the last call, else NoHint
  est     \* SpecHint only: the cursors' own size_hint() results

vars == <<arity, src, h, out, hint, est>>

NoHint == <<>>
NoEst == <<>>

----------------------------------------------------------------------------
(* Source iterators: a finite sequence and the number of items pulled.     *)

SeqsUpTo(n) == UNION {[1..k -> Items] : k \in 0..n}

\* An iterator over the items of s, positioned at its start.
IterOf(s) == [src |-> s, pos |-> 0, unbounded |-> FALSE]

\* A source that never runs out: the counter 0, 1, 2, ... (0..).
CountUp == [src |-> <<>>, pos |-> 0, unbounded |-> TRUE]

\* I::next: pulls the next item, or None for ever once the items are spent.
IterNext(it) ==
  IF it.unbounded
    THEN [self |-> [it EXCEPT !.pos = @ + 1], ret |-> Some(it.pos)]
  ELSE IF it.pos < Len(it.src)
    THEN [self |-> [it EXCEPT !.pos = @ + 1], ret |-> Some(it.src[it.pos + 1])]
    ELSE [self |-> it, ret |-> None]

\* I::clone: an independent iterator at the same position.
IterClone(it) == it

\* I::size_hint: the exact remaining count of a finite source,
\* (usize::MAX, None) of the counter.
IterSizeHint(it) ==
  IF it.unbounded THEN <<USIZE_MAX, None>>
  ELSE LET n == Len(it.src) - it.pos IN <<n, Some(n)>>

----------------------------------------------------------------------------
(* core::iter::Peekable<I>: the iterator and a one-slot lookahead,         *)
(* peeked : Option<Option<Item>>.                                          *)

\* Iterator::peekable
PeekableNew(it) == [iter |-> it, peeked |-> None]

\* Peekable::peek: fills the slot from the iterator if it is empty.
PeekablePeek(p) ==
  IF p.peeked # None
    THEN [self |-> p, ret |-> Unwrap(p.peeked)]
    ELSE LET n == IterNext(p.iter)
         IN [self |-> [iter |-> n.self, peeked |-> Some(n.ret)], ret |-> n.ret]

\* Peekable::next: takes the slot if it is filled, else pulls.
PeekableNext(p) ==
  IF p.peeked # None
    THEN [self |-> [p EXCEPT !.peeked = None], ret |-> Unwrap(p.peeked)]
    ELSE LET n == IterNext(p.iter)
         IN [self |-> [p EXCEPT !.iter = n.self], ret |-> n.ret]

\* usize::saturating_add, usize::checked_add
SatAdd(a, b) == IF a + b > USIZE_MAX THEN USIZE_MAX ELSE a + b
CheckedAdd(a, b) == IF a + b > USIZE_MAX THEN None ELSE Some(a + b)

\* Peekable::size_hint: a peeked None is (0, Some(0)); a peeked item counts.
PeekableSizeHint(p) ==
  IF p.peeked = Some(None) THEN <<0, Some(0)>>
  ELSE LET peek_len == IF p.peeked = None THEN 0 ELSE 1
           inner == IterSizeHint(p.iter)
       IN <<SatAdd(inner[1], peek_len),
            IF inner[2] = None THEN None
            ELSE CheckedAdd(Unwrap(inner[2]), peek_len)>>

\* usize::saturating_mul, usize::checked_mul
SatMul(a, b) == IF a * b > USIZE_MAX THEN USIZE_MAX ELSE a * b
CheckedMul(a, b) == IF a * b > USIZE_MAX THEN None ELSE Some(a * b)

----------------------------------------------------------------------------
(* Hom2FCartProd                                                           *)

RECURSIVE Dedup(_)
\* s without the items that repeat their predecessor.
Dedup(s) ==
  IF Len(s) <= 1 THEN s
  ELSE IF s[1] = s[2] THEN Dedup(Tail(s))
  ELSE <<s[1]>> \o Dedup(Tail(s))

\* A constructor that keeps an origin of position 2 with its repeated items
\* merged.
Hom2NewDedup(it1, it2) ==
  [curr_it1 |-> PeekableNew(it1),
   curr_it2 |-> IterClone(it2),
   orig_it2 |-> [it2 EXCEPT !.src = Dedup(@)]]

\* Hom2FCartProd::new
Hom2New(it1, it2) ==
  [curr_it1 |-> PeekableNew(it1),
   curr_it2 |-> IterClone(it2),
   orig_it2 |-> it2]

\* A carry that also restarts position 1 when it runs out, as if it were
\* one of the resettable positions.
Hom2CarryRestartsFirst(self) ==
  LET n1 == PeekableNext(self.curr_it1)
      a  == [self EXCEPT !.curr_it1 = n1.self]
  IN IF n1.ret = None THEN [self |-> a, ret |-> None]
     ELSE
  LET p0 == PeekablePeek(a.curr_it1)
      p1 == IF p0.ret = None
              THEN PeekablePeek(PeekableNew(IterOf(a.curr_it1.iter.src)))
              ELSE p0
      b  == [a EXCEPT !.curr_it1 = p1.self]
  IN IF p1.ret = None THEN [self |-> b, ret |-> None]
     ELSE
  LET c  == [b EXCEPT !.curr_it2 = IterClone(b.orig_it2)]
      n2 == IterNext(c.curr_it2)
      d  == [c EXCEPT !.curr_it2 = n2.self]
  IN IF n2.ret = None THEN [self |-> d, ret |-> None]
     ELSE [self |-> d, ret |-> Some(<<Unwrap(p1.ret), Unwrap(n2.ret)>>)]

\* A carry that forgets to restart position 2 from its origin.
Hom2CarryNoReset(self) ==
  LET n1 == PeekableNext(self.curr_it1)
      a  == [self EXCEPT !.curr_it1 = n1.self]
  IN IF n1.ret = None THEN [self |-> a, ret |-> None]
     ELSE
  LET p1 == PeekablePeek(a.curr_it1)
      b  == [a EXCEPT !.curr_it1 = p1.self]
  IN IF p1.ret = None THEN [self |-> b, ret |-> None]
     ELSE
  LET n2 == IterNext(b.curr_it2)
      d  == [b EXCEPT !.curr_it2 = n2.self]
  IN IF n2.ret = None THEN [self |-> d, ret |-> None]
     ELSE [self |-> d, ret |-> Some(<<Unwrap(p1.ret), Unwrap(n2.ret)>>)]

\* Hom2FCartProd::next, the arm taken when curr_it2 is spent: position 1
\* moves on, position 2 restarts from orig_it2.
Hom2Carry(self) ==
  LET n1 == PeekableNext(self.curr_it1)
      a  == [self EXCEPT !.curr_it1 = n1.self]
  IN IF n1.ret = None THEN [self |-> a, ret |-> None]
     ELSE
  LET p1 == PeekablePeek(a.curr_it1)
      b  == [a EXCEPT !.curr_it1 = p1.self]
  IN IF p1.ret = None THEN [self |-> b, ret |-> None]
     ELSE
  LET c  == [b EXCEPT !.curr_it2 = IterClone(b.orig_it2)]
      n2 == IterNext(c.curr_it2)
      d  == [c EXCEPT !.curr_it2 = n2.self]
  IN IF n2.ret = None THEN [self |-> d, ret |-> None]
     ELSE [self |-> d, ret |-> Some(<<Unwrap(p1.ret), Unwrap(n2.ret)>>)]

\* A next() that consumes the current item of position 1 instead of
\* peeking at it.
Hom2NextConsumesFirst(self) ==
  LET n1 == PeekableNext(self.curr_it1)
      a  == [self EXCEPT !.curr_it1 = n1.self]
  IN IF n1.ret = None THEN [self |-> a, ret |-> None]
     ELSE
  LET n2 == IterNext(a.curr_it2)
      b  == [a EXCEPT !.curr_it2 = n2.self]
  IN IF n2.ret # None
       THEN [self |-> b, ret |-> Some(<<Unwrap(n1.ret), Unwrap(n2.ret)>>)]
       ELSE Hom2Carry(b)

\* Hom2FCartProd::next
Hom2Next(self) ==
  LET p1 == PeekablePeek(self.curr_it1)
      a  == [self EXCEPT !.curr_it1 = p1.self]
  IN IF p1.ret = None THEN [self |-> a, ret |-> None]
     ELSE
  LET n2 == IterNext(a.curr_it2)
      b  == [a EXCEPT !.curr_it2 = n2.self]
  IN IF n2.ret # None
       THEN [self |-> b, ret |-> Some(<<Unwrap(p1.ret), Unwrap(n2.ret)>>)]
       ELSE Hom2Carry(b)

\* Hom2FCartProd::size_hint, on the two cursors' own estimates.
Hom2Estimate(e1, e2) ==
  <<SatMul(e1[1], e2[1]),
    IF e1[2] # None /\ e2[2] # None
      THEN CheckedMul(Unwrap(e1[2]), Unwrap(e2[2]))
      ELSE None>>

\* Hom2FCartProd::size_hint
Hom2SizeHint(self) ==
  Hom2Estimate(PeekableSizeHint(self.curr_it1), IterSizeHint(self.curr_it2))

----------------------------------------------------------------------------
(* Hom3FCartProd                                                           *)

\* Hom3FCartProd::new
Hom3New(it1, it2, it3) ==
  [curr_it1 |-> PeekableNew(it1),
   curr_it2 |-> PeekableNew(IterClone(it2)),
   orig_it2 |-> it2,
   curr_it3 |-> IterClone(it3),
   orig_it3 |-> it3]

\* A carry stopping at position 2 that forgets to restart position 3.
Hom3StopAt2NoReset(self, el1, el2) ==
  LET n3 == IterNext(self.curr_it3)
      b  == [self EXCEPT !.curr_it3 = n3.self]
  IN IF n3.ret = None THEN [self |-> b, ret |-> None]
     ELSE [self |-> b, ret |-> Some(<<el1, el2, Unwrap(n3.ret)>>)]

\* A carry stopping at position 2 that restarts position 3 from the origin
\* of position 2.
Hom3StopAt2FromOrig2(self, el1, el2) ==
  LET a  == [self EXCEPT !.curr_it3 = IterClone(self.orig_it2)]
      n3 == IterNext(a.curr_it3)
      b  == [a EXCEPT !.curr_it3 = n3.self]
  IN IF n3.ret = None THEN [self |-> b, ret |-> None]
     ELSE [self |-> b, ret |-> Some(<<el1, el2, Unwrap(n3.ret)>>)]

\* Hom3FCartProd::next, the carry that stops at position 2 (el2 is its new
\* current item): position 3 restarts from orig_it3.
Hom3StopAt2(self, el1, el2) ==
  LET a  == [self EXCEPT !.curr_it3 = IterClone(self.orig_it3)]
      n3 == IterNext(a.curr_it3)
      b  == [a EXCEPT !.curr_it3 = n3.self]
  IN IF n3.ret = None THEN [self |-> b, ret |-> None]
     ELSE [self |-> b, ret |-> Some(<<el1, el2, Unwrap(n3.ret)>>)]

\* A carry stopping at position 1 that forgets to restart position 2.
Hom3StopAt1NoReset2(self, el1) ==
  LET a  == [self EXCEPT !.curr_it3 = IterClone(self.orig_it3)]
      p2 == PeekablePeek(a.curr_it2)
      c  == [a EXCEPT !.curr_it2 = p2.self]
  IN IF p2.ret = None THEN [self |-> c, ret |-> None]
     ELSE
  LET n3 == IterNext(c.curr_it3)
      d  == [c EXCEPT !.curr_it3 = n3.self]
  IN IF n3.ret = None THEN [self |-> d, ret |-> None]
     ELSE [self |-> d, ret |-> Some(<<el1, Unwrap(p2.ret), Unwrap(n3.ret)>>)]

\* Hom3FCartProd::next, the carry that stops at position 1 (el1 is its new
\* current item): positions 3 and 2 restart from their origins.
Hom3StopAt1(self, el1) ==
  LET a  == [self EXCEPT !.curr_it3 = IterClone(self.orig_it3)]
      b  == [a EXCEPT !.curr_it2 = PeekableNew(IterClone(a.orig_it2))]
      p2 == PeekablePeek(b.curr_it2)
      c  == [b EXCEPT !.curr_it2 = p2.self]
  IN IF p2.ret = None THEN [self |-> c, ret |-> None]
     ELSE
  LET n3 == IterNext(c.curr_it3)
      d  == [c EXCEPT !.curr_it3 = n3.self]
  IN IF n3.ret = None THEN [self |-> d, ret |-> None]
     ELSE [self |-> d, ret |-> Some(<<el1, Unwrap(p2.ret), Unwrap(n3.ret)>>)]

\* Hom3FCartProd::next, from the point where curr_it3 is spent (el1 is the
\* current item of position 1).
Hom3Carry(self, el1) ==
  LET n2 == PeekableNext(self.curr_it2)
      a  == [self EXCEPT !.curr_it2 = n2.self]
  IN IF n2.ret = None THEN [self |-> a, ret |-> None]
     ELSE
  LET p2 == PeekablePeek(a.curr_it2)
      b  == [a EXCEPT !.curr_it2 = p2.self]
  IN IF p2.ret # None THEN Hom3StopAt2(b, el1, Unwrap(p2.ret))
     ELSE
  LET n1 == PeekableNext(b.curr_it1)
      c  == [b EXCEPT !.curr_it1 = n1.self]
  IN IF n1.ret = None THEN [self |-> c, ret |-> None]
     ELSE
  LET p1 == PeekablePeek(c.curr_it1)
      d  == [c EXCEPT !.curr_it1 = p1.self]
  IN IF p1.ret # None THEN Hom3StopAt1(d, Unwrap(p1.ret))
     ELSE [self |-> d, ret |-> None]

\* Hom3FCartProd::next
Hom3Next(self) ==
  LET p1 == PeekablePeek(self.curr_it1)
      a  == [self EXCEPT !.curr_it1 = p1.self]
  IN IF p1.ret = None THEN [self |-> a, ret |-> None]
     ELSE
  LET p2 == PeekablePeek(a.curr_it2)
      b  == [a EXCEPT !.curr_it2 = p2.self]
  IN IF p2.ret = None THEN [self |-> b, ret |-> None]
     ELSE
  LET n3 == IterNext(b.curr_it3)
      c  == [b EXCEPT !.curr_it3 = n3.self]
  IN IF n3.ret # None
       THEN [self |-> c,
             ret |-> Some(<<Unwrap(p1.ret), Unwrap(p2.ret), Unwrap(n3.ret)>>)]
       ELSE Hom3Carry(c, Unwrap(p1.ret))

\* Hom3FCartProd::size_hint, the closure folding the lower bounds.
FoldMin(prod, x) == SatMul(prod, x)

\* The upper bound folded with saturating multiplication.
FoldMaxSaturating(opt_prod, opt_x) ==
  IF opt_x = None \/ opt_prod = None THEN None
  ELSE Some(SatMul(Unwrap(opt_prod), Unwrap(opt_x)))

\* Hom3FCartProd::size_hint, the closure folding the upper bounds.
FoldMax(opt_prod, opt_x) ==
  IF opt_x = None THEN None
  ELSE IF opt_prod = None THEN None
  ELSE CheckedMul(Unwrap(opt_prod), Unwrap(opt_x))

\* Hom3FCartProd::size_hint, on the three cursors' own estimates.
Hom3Estimate(e1, e2, e3) ==
  <<FoldMin(FoldMin(FoldMin(1, e1[1]), e2[1]), e3[1]),
    FoldMax(FoldMax(FoldMax(Some(1), e1[2]), e2[2]), e3[2])>>

\* size_hint() computed from orig_it3 instead of the live curr_it3.
Hom3SizeHintOfOrigin(self) ==
  Hom3Estimate(PeekableSizeHint(self.curr_it1),
               PeekableSizeHint(self.curr_it2),
               IterSizeHint(self.orig_it3))

\* Hom3FCartProd::size_hint
Hom3SizeHint(self) ==
  Hom3Estimate(PeekableSizeHint(self.curr_it1),
               PeekableSizeHint(self.curr_it2),
               IterSizeHint(self.curr_it3))

----------------------------------------------------------------------------
(* The program: one product iterator is built from the sources, then       *)
(* next() and size_hint() are called on it in any order.                   *)

\* Calls of next() explored on the iterator built from s1, s2, s3.
CallBound(s) == (Len(s[1]) + 1) * (Len(s[2]) + 1) * (Len(s[3]) + 1) + ExtraCalls

Init ==
  /\ arity \in {2, 3}
  /\ src \in SeqsUpTo(MaxLen) \X SeqsUpTo(MaxLen) \X SeqsUpTo(MaxLen)
  /\ arity = 2 => src[3] = <<>>
  /\ h = IF arity = 2
           THEN Hom2New(IterOf(src[1]), IterOf(src[2]))
           ELSE Hom3New(IterOf(src[1]), IterOf(src[2]), IterOf(src[3]))
  /\ out = <<>>
  /\ hint = NoHint
  /\ est = NoEst

\* it.next() on the Hom2FCartProd
Hom2NextCall ==
  /\ arity = 2
  /\ est = NoEst
  /\ Len(out) < CallBound(src)
  /\ LET r == Hom2Next(h)
     IN /\ h' = r.self
        /\ out' = Append(out, r.ret)
  /\ hint' = NoHint
  /\ UNCHANGED <<arity, src, est>>

\* it.next() on the Hom3FCartProd
Hom3NextCall ==
  /\ arity = 3
  /\ est = NoEst
  /\ Len(out) < CallBound(src)
  /\ LET r == Hom3Next(h)
     IN /\ h' = r.self
        /\ out' = Append(out, r.ret)
  /\ hint' = NoHint
  /\ UNCHANGED <<arity, src, est>>

\* it.size_hint() on the Hom2FCartProd: &self, nothing but the result changes
Hom2SizeHintCall ==
  /\ arity = 2
  /\ est = NoEst
  /\ hint' = Hom2SizeHint(h)
  /\ UNCHANGED <<arity, src, h, out, est>>

\* it.size_hint() on the Hom3FCartProd
Hom3SizeHintCall ==
  /\ arity = 3
  /\ est = NoEst
  /\ hint' = Hom3SizeHint(h)
  /\ UNCHANGED <<arity, src, h, out, est>>

Next ==
  \/ Hom2NextCall
  \/ Hom3NextCall
  \/ Hom2SizeHintCall
  \/ Hom3SizeHintCall

Spec == Init /\ [][Next]_vars

----------------------------------------------------------------------------
(* The same program with a first source that never runs out.               *)

InitUnbounded ==
  /\ arity \in {2, 3}
  /\ src \in {<<>>} \X SeqsUpTo(MaxLen) \X SeqsUpTo(MaxLen)
  /\ arity = 2 => src[3] = <<>>
  /\ h = IF arity = 2
           THEN Hom2New(CountUp, IterOf(src[2]))
           ELSE Hom3New(CountUp, IterOf(src[2]), IterOf(src[3]))
  /\ out = <<>>
  /\ hint = NoHint
  /\ est = NoEst

SpecUnbounded == InitUnbounded /\ [][Next]_vars

----------------------------------------------------------------------------
(* Hom3FCartProd::new([x], A, B) beside Hom2FCartProd::new(A, B): h holds   *)
(* both, and out the pairs of results of their k-th calls of next().       *)

InitPair ==
  /\ arity = 23
  /\ src \in {<<x>> : x \in Items} \X SeqsUpTo(MaxLen) \X SeqsUpTo(MaxLen)
  /\ h = [hom3 |-> Hom3New(IterOf(src[1]), IterOf(src[2]), IterOf(src[3])),
          hom2 |-> Hom2New(IterOf(src[2]), IterOf(src[3]))]
  /\ out = <<>>
  /\ hint = NoHint
  /\ est = NoEst

\* it3.next(); it2.next()
PairNextCall ==
  /\ arity = 23
  /\ Len(out) < CallBound(src)
  /\ LET r3 == Hom3Next(h.hom3)
         r2 == Hom2Next(h.hom2)
     IN /\ h' = [hom3 |-> r3.self, hom2 |-> r2.self]
        /\ out' = Append(out, <<r3.ret, r2.ret>>)
  /\ UNCHANGED <<arity, src, hint, est>>

NextPair == PairNextCall

SpecPair == InitPair /\ [][NextPair]_vars

----------------------------------------------------------------------------
(* size_hint() as a function of the cursors' estimates alone: the cursors  *)
(* report any lower bound and any upper bound, known or not.               *)

EstVals == {0, 1, 2, 3, 5, USIZE_MAX}
Estimates == EstVals \X ({None} \cup {Some(u) : u \in EstVals})

InitHint ==
  /\ arity \in {2, 3}
  /\ est \in Estimates \X Estimates \X Estimates
  /\ arity = 2 => est[3] = <<0, None>>
  /\ src = <<<<>>, <<>>, <<>>>>
  /\ h = IF arity = 2
           THEN Hom2New(IterOf(src[1]), IterOf(src[2]))
           ELSE Hom3New(IterOf(src[1]), IterOf(src[2]), IterOf(src[3]))
  /\ out = <<>>
  /\ hint = NoHint

\* size_hint() of a Hom2FCartProd whose cursors report est[1], est[2]
Hom2EstimateCall ==
  /\ arity = 2
  /\ est # NoEst
  /\ hint = NoHint
  /\ hint' = Hom2Estimate(est[1], est[2])
  /\ UNCHANGED <<arity, src, h, out, est>>

\* size_hint() of a Hom3FCartProd whose cursors report est[1], est[2], est[3]
Hom3EstimateCall ==
  /\ arity = 3
  /\ est # NoEst
  /\ hint = NoHint
  /\ hint' = Hom3Estimate(est[1], est[2], est[3])
  /\ UNCHANGED <<arity, src, h, out, est>>

NextHint ==
  \/ Hom2EstimateCall
  \/ Hom3EstimateCall

SpecHint == InitHint /\ [][NextHint]_vars

----------------------------------------------------------------------------
(* Properties                                                              *)

N(i) == Len(src[i])
\* The number of index combinations of the sources the iterator was built on.
Total == IF arity = 2 THEN N(1) * N(2) ELSE N(1) * N(2) * N(3)
\* The k-th tuple of the sources in lexicographic order of the indices.
Lex2(k) == <<src[1][((k - 1) \div N(2)) + 1], src[2][((k - 1) % N(2)) + 1]>>
Lex3(k) == <<src[1][((k - 1) \div (N(2) * N(3))) + 1],
             src[2][(((k - 1) \div N(3)) % N(2)) + 1],
             src[3][((k - 1) % N(3)) + 1]>>
Complete == Len(out) > Total

\* C1: the k-th call of next() on Hom2FCartProd::new(s1, s2) returns the k-th
\* tuple [s1[i], s2[j]] in lexicographic order of (i, j), for k up to
\* n1*n2, and None after that.
C1_Hom2Lexicographic ==
  arity = 2 =>
    \A k \in 1..Len(out) :
      out[k] = IF k <= Total THEN Some(Lex2(k)) ELSE None

C1_Witness ==
  /\ arity = 2
  /\ N(1) = 2 /\ N(2) = 2
  /\ Len(out) = 5
  /\ out[4] # None /\ out[5] = None

\* C2: the k-th call of next() on Hom3FCartProd::new(s1, s2, s3) returns the
\* k-th tuple [s1[i], s2[j], s3[l]] in lexicographic order of (i, j, l), for
\* k up to n1*n2*n3, and None after that.
C2_Hom3Lexicographic ==
  arity = 3 =>
    \A k \in 1..Len(out) :
      out[k] = IF k <= Total THEN Some(Lex3(k)) ELSE None

\* All of 2 x 2 x 2 was produced: the third call carried into position 2,
\* the fifth into position 1.
C2_Witness ==
  /\ arity = 3
  /\ N(1) = 2 /\ N(2) = 2 /\ N(3) = 2
  /\ Len(out) = 9
  /\ out[8] # None /\ out[9] = None

\* C3: once a call of next() has returned None, every later call returns
\* None.
C3_ExhaustionIdempotent ==
  \A i, j \in 1..Len(out) : (i < j /\ out[i] = None) => out[j] = None

\* None was returned while the cursors of positions 1 and 2 were still
\* moving (position 3 is empty), and calls went on.
C3_Witness ==
  /\ arity = 3
  /\ N(1) = 2 /\ N(2) = 2 /\ N(3) = 0
  /\ Len(out) >= 6
  /\ out[1] = None

\* C5: the calls of next() before the first None are exactly n1*...*nN, so
\* call number n1*...*nN + 1 returns None (at once if some ni = 0).
C5_Cardinality ==
  /\ \A k \in 1..Len(out) : k <= Total => out[k] # None
  /\ Complete => out[Total + 1] = None

C5_Witness ==
  /\ arity = 3
  /\ N(1) = 1 /\ N(2) = 2 /\ N(3) = 2
  /\ Len(out) = 5
  /\ out[5] = None

\* C6: if a source of the iterator is empty, the first call of next()
\* returns None.
C6_EmptyFactor ==
  (Len(out) >= 1 /\ \E i \in 1..arity : N(i) = 0) => out[1] = None

C6_Witness ==
  /\ arity = 3
  /\ N(1) = 2 /\ N(2) = 2 /\ N(3) = 0
  /\ Len(out) = 1

\* The number of tuples next() still produces from iterator state s: the
\* calls that return Some before the first that returns None.
RECURSIVE Hom2Remaining(_)
Hom2Remaining(s) ==
  LET r == Hom2Next(s)
  IN IF r.ret = None THEN 0 ELSE 1 + Hom2Remaining(r.self)

RECURSIVE Hom3Remaining(_)
Hom3Remaining(s) ==
  LET r == Hom3Next(s)
  IN IF r.ret = None THEN 0 ELSE 1 + Hom3Remaining(r.self)

Remaining == IF arity = 2 THEN Hom2Remaining(h) ELSE Hom3Remaining(h)

\* C4: whenever size_hint() returns (lo, hi), the number of tuples next()
\* still produces is at least lo and, if hi is Some(u), at most u.
C4_EstimateSound ==
  hint # NoHint =>
    /\ hint[1] <= Remaining
    /\ hint[2] # None => Remaining <= Unwrap(hint[2])

\* The estimates of the live cursors, by position.
CursorEstimates ==
  IF arity = 2
    THEN <<PeekableSizeHint(h.curr_it1), IterSizeHint(h.curr_it2)>>
    ELSE <<PeekableSizeHint(h.curr_it1), PeekableSizeHint(h.curr_it2),
           IterSizeHint(h.curr_it3)>>

RECURSIVE ProductTo(_, _)
\* f[1] * ... * f[n]
ProductTo(f, n) == IF n = 0 THEN 1 ELSE ProductTo(f, n - 1) * f[n]

Clamp(n) == IF n > USIZE_MAX THEN USIZE_MAX ELSE n

\* The saturating product of the lower bounds of estimates e[1..n], and the
\* checked product of their upper bounds.
LowerOf(e, n) == Clamp(ProductTo([i \in 1..n |-> e[i][1]], n))
UpperOf(e, n) ==
  IF \E i \in 1..n : e[i][2] = None THEN None
  ELSE LET u == [i \in 1..n |-> Unwrap(e[i][2])]
       IN IF \E k \in 1..n : ProductTo(u, k) > USIZE_MAX
            THEN None
            ELSE Some(ProductTo(u, n))

C8_OverflowSafe ==
  (hint # NoHint /\ est # NoEst) =>
    /\ hint[1] \in 0..USIZE_MAX
    /\ hint[2] \in {None} \cup {Some(u) : u \in 0..USIZE_MAX}
    /\ hint[2] = UpperOf(est, arity)
    /\ hint[1] = IF arity = 2
                   THEN Clamp(est[1][1] * est[2][1])
                   ELSE Clamp(Clamp(est[1][1] * est[2][1]) * est[3][1])

\* The product of the first two upper bounds overflows although the product
\* of all three is 0, and the lower bounds clamp.
C8_Witness ==
  /\ arity = 3
  /\ est # NoEst
  /\ est[1] = <<USIZE_MAX, Some(USIZE_MAX)>>
  /\ est[2] = <<2, Some(2)>>
  /\ est[3] = <<1, Some(0)>>
  /\ hint = <<USIZE_MAX, None>>

\* The index combinations of the sources, and the tuple each one selects.
Indices == IF arity = 2 THEN (1..N(1)) \X (1..N(2))
           ELSE (1..N(1)) \X (1..N(2)) \X (1..N(3))
TupleAt(ix) == [p \in 1..arity |-> src[p][ix[p]]]

\* C9: once next() has returned None, every tuple value was returned as
\* many times as there are index combinations selecting it: equal items of
\* a source are not merged.
C9_RepetitionPropagates ==
  (Complete /\ out[Len(out)] = None) =>
    \A t \in [1..arity -> Items] :
      Cardinality({k \in 1..Len(out) : out[k] = Some(t)})
        = Cardinality({ix \in Indices : TupleAt(ix) = t})

\* Source 2 repeats an item and the product repeated the tuples with it.
C9_Witness ==
  /\ arity = 3
  /\ src = <<(<<0, 1>>), (<<1, 1>>), (<<0>>)>>
  /\ Len(out) = 5
  /\ out[1] = out[2]
  /\ out[5] = None

\* The number of items pulled from source 1, and whether its cursor has
\* no current item left.
Pulled1 == h.curr_it1.iter.pos
Exhausted1 ==
  \/ h.curr_it1.peeked = Some(None)
  \/ h.curr_it1.peeked = None /\ Pulled1 = N(1)

\* C10: source 1 is never restarted: the number of items pulled from it
\* never decreases and never exceeds its length, and a call of next() made
\* when position 1's cursor is exhausted returns None.
C10_FirstPositionOnce ==
  [][/\ Pulled1' >= Pulled1
     /\ Pulled1' <= N(1)
     /\ (Exhausted1 /\ out' # out) => out'[Len(out')] = None]_vars

\* Position 1 ran out after both its items were current, and next() was
\* called again.
C10_Witness ==
  /\ arity = 2
  /\ N(1) = 2 /\ N(2) = 1
  /\ Exhausted1
  /\ Pulled1 = 2
  /\ Len(out) = 4

\* Of iterator state s: the cursor of the last position, the origin copies,
\* and the current items (what peek() shows) of the positions before the
\* last.
LastCursor(s) == IF arity = 2 THEN s.curr_it2 ELSE s.curr_it3
Origins(s) == IF arity = 2 THEN <<s.orig_it2>> ELSE <<s.orig_it2, s.orig_it3>>
Current(p) == PeekablePeek(p).ret
Currents(s) == IF arity = 2 THEN <<Current(s.curr_it1)>>
               ELSE <<Current(s.curr_it1), Current(s.curr_it2)>>
HasItem(it) == it.pos < Len(it.src)

\* C11: a call of next() made when the last cursor still has an item and
\* every earlier position has a current item pulls exactly one item from
\* the last cursor, leaves the current items of the earlier positions and
\* the origin copies as they were, and returns the current items followed
\* by the pulled item.
C11_PlainStepFrame ==
  [][(/\ out' # out
      /\ HasItem(LastCursor(h))
      /\ \A i \in 1..(arity - 1) : Currents(h)[i] # None)
     =>
     /\ LastCursor(h') = [LastCursor(h) EXCEPT !.pos = @ + 1]
     /\ Currents(h') = Currents(h)
     /\ Origins(h') = Origins(h)
     /\ out'[Len(out')] =
          Some([i \in 1..(arity - 1) |-> Unwrap(Currents(h)[i])]
               \o <<LastCursor(h).src[LastCursor(h).pos + 1]>>)]_vars

\* The second call on 2 x 2 x 2 was a plain step: it pulled the second item
\* of source 3 under the first items of sources 1 and 2.
C11_Witness ==
  /\ arity = 3
  /\ N(1) = 2 /\ N(2) = 2 /\ N(3) = 2
  /\ Len(out) = 2
  /\ h.curr_it3.pos = 2
  /\ out[2] = Some(<<src[1][1], src[2][1], src[3][2]>>)

\* The index in its source of the current item of peekable cursor p; one
\* past the end when the cursor has run out.
CurIdx(p) == IF p.peeked = None THEN p.iter.pos + 1
             ELSE IF p.peeked = Some(None) THEN Len(p.iter.src) + 1
             ELSE p.iter.pos
\* A cursor of source s right after a restart and the pull of its first item.
RestartedLast(s) == IterNext(IterClone(IterOf(s))).self

OriginsIntact ==
  Origins(h) = IF arity = 2 THEN <<IterOf(src[2])>>
               ELSE <<IterOf(src[2]), IterOf(src[3])>>

\* A call of next() moved position 1 to a further item of its source.
Advanced1 ==
  /\ out' # out
  /\ CurIdx(h'.curr_it1) # CurIdx(h.curr_it1)
  /\ Current(h'.curr_it1) # None
\* A call of Hom3FCartProd::next() moved position 2, and not position 1, to
\* a further item of its source.
Advanced2 ==
  /\ out' # out
  /\ arity = 3
  /\ CurIdx(h'.curr_it1) = CurIdx(h.curr_it1)
  /\ CurIdx(h'.curr_it2) # CurIdx(h.curr_it2)
  /\ Current(h'.curr_it2) # None
Returned == out'[Len(out')]

\* C12: the origin copies always equal the sources given to new(); a call
\* of next() that moves position i to a further item restarts every later
\* position from its origin, so that a tuple it returns holds the first item
\* of the source at every later position.
C12_ResetOnCarry ==
  /\ []OriginsIntact
  /\ [][/\ (Advanced1 /\ arity = 2) =>
             /\ h'.curr_it2 = RestartedLast(src[2])
             /\ Returned # None => Unwrap(Returned)[2] = src[2][1]
        /\ (Advanced1 /\ arity = 3) =>
             /\ h'.curr_it2.iter.src = src[2] /\ CurIdx(h'.curr_it2) = 1
             /\ h'.curr_it3 = RestartedLast(src[3])
             /\ Returned # None =>
                  /\ Unwrap(Returned)[2] = src[2][1]
                  /\ Unwrap(Returned)[3] = src[3][1]
        /\ Advanced2 =>
             /\ h'.curr_it3 = RestartedLast(src[3])
             /\ Returned # None => Unwrap(Returned)[3] = src[3][1]]_vars

\* The fifth call on 2 x 2 x 2 carried into position 1, after position 3 had
\* been restarted once before, and returned the first items of sources 2 and 3.
C12_Witness ==
  /\ arity = 3
  /\ src = <<(<<0, 1>>), (<<0, 1>>), (<<0, 1>>)>>
  /\ Len(out) = 5
  /\ out[3] = Some(<<0, 1, 0>>)
  /\ out[5] = Some(<<1, 0, 0>>)
  /\ CurIdx(h.curr_it1) = 2 /\ CurIdx(h.curr_it2) = 1 /\ h.curr_it3.pos = 1

\* The number of calls of next() in one full cycle of the positions after
\* the first.
Cycle == IF arity = 2 THEN N(2) ELSE N(2) * N(3)
\* The items of the later positions at call k of next().
LaterAt(k) == IF arity = 2 THEN <<src[2][((k - 1) % N(2)) + 1]>>
              ELSE <<src[2][(((k - 1) \div N(3)) % N(2)) + 1],
                     src[3][((k - 1) % N(3)) + 1]>>

\* C13: with a first source that never runs out and finite non-empty later
\* sources, no call of next() returns None: call k returns item number
\* (k - 1) div Cycle of source 1 with the later positions in lexicographic
\* order, so position 1 moves on by one item once per full cycle of the
\* later positions.
C13_UnboundedFirst ==
  (\A i \in 2..arity : N(i) > 0) =>
    /\ \A k \in 1..Len(out) :
         out[k] = Some(<<(k - 1) \div Cycle>> \o LaterAt(k))
    /\ Len(out) >= 1 => CurIdx(h.curr_it1) = ((Len(out) - 1) \div Cycle) + 1

\* Nine calls on (0.., 2 items, 2 items): position 1 moved on at the fifth
\* call and at the ninth.
C13_Witness ==
  /\ h.curr_it1.iter.unbounded
  /\ arity = 3
  /\ N(2) = 2 /\ N(3) = 2
  /\ Len(out) = 9
  /\ out[4] = Some(<<0, src[2][2], src[3][2]>>)
  /\ out[5] = Some(<<1, src[2][1], src[3][1]>>)
  /\ out[9] = Some(<<2, src[2][1], src[3][1]>>)

\* The items a finite cursor has still to yield: the peeked item, if any,
\* and the items of its source not yet pulled.
RestOf(it) == SubSeq(it.src, it.pos + 1, Len(it.src))
RestOfPeekable(p) ==
  (IF p.peeked # None /\ p.peeked # Some(None) THEN <<Unwrap(Unwrap(p.peeked))>>
   ELSE <<>>) \o RestOf(p.iter)
Rests(s) == IF arity = 2
              THEN <<RestOfPeekable(s.curr_it1), RestOf(s.curr_it2)>>
              ELSE <<RestOfPeekable(s.curr_it1), RestOfPeekable(s.curr_it2),
                     RestOf(s.curr_it3)>>
NoneReturned == \E k \in 1..Len(out) : out[k] = None

\* C14, as claimed: a call of next() made after a call has returned None
\* leaves every cursor with the same remaining items, whatever the sources.
C14_NoPullAfterNone ==
  [][(out' # out /\ NoneReturned) => Rests(h') = Rests(h)]_vars

\* C14, amended: when the source of the last position is not empty, a call
\* of next() made after a call has returned None leaves every cursor with
\* the same remaining items.
C14_NoPullAfterNoneLastNonEmpty ==
  [][(out' # out /\ NoneReturned /\ N(arity) > 0) => Rests(h') = Rests(h)]_vars

\* next() was called again after the product of 2 x 2 x 2 had ended with
\* None.
C14_Witness ==
  /\ arity = 3
  /\ N(1) = 2 /\ N(2) = 2 /\ N(3) = 2
  /\ Len(out) = 10
  /\ out[9] = None /\ out[10] = None
  /\ Rests(h) = <<(<<>>), (<<>>), (<<>>)>>

\* C15: whenever size_hint() returns (lo, hi), in any reachable state,
\* the number of tuples next() still produces is at least lo.
C15_LowerBoundSound ==
  hint # NoHint => hint[1] <= Remaining

\* After the first call on 2 x 2 x 2 size_hint() returned the lower bound 4
\* with 7 tuples still to come.
C15_Witness ==
  /\ arity = 3
  /\ N(1) = 2 /\ N(2) = 2 /\ N(3) = 2
  /\ hint # NoHint
  /\ hint[1] = 4
  /\ Remaining = 7

\* C16: the k-th call of next() on Hom3FCartProd::new([x], A, B) returns
\* Some([x, a, b]) exactly when the k-th call on Hom2FCartProd::new(A, B)
\* returns Some([a, b]), and None exactly when that one returns None.
C16_AritiesAgree ==
  arity = 23 =>
    \A k \in 1..Len(out) :
      out[k][1] = IF out[k][2] = None THEN None
                  ELSE Some(<<src[1][1]>> \o Unwrap(out[k][2]))

\* Both ran through A x B with a carry into position 2 of the three-fold
\* product (position 1 of the two-fold one) and ended together.
C16_Witness ==
  /\ arity = 23
  /\ N(2) = 2 /\ N(3) = 2
  /\ Len(out) = 5
  /\ out[3] = <<Some(<<src[1][1], src[2][2], src[3][1]>>),
                Some(<<src[2][2], src[3][1]>>)>>
  /\ out[5] = <<None, None>>

====
